---- MODULE Spec2Model ----
(***************************************************************************)
(* BaserowUpdater (src/update_baserow.py): upsert of one logical record    *)
(* into a remote Baserow table, matched on the primary columns, with       *)
(* option-flag folding, date formatting and retry on HTTPError.            *)
(***************************************************************************)
EXTENDS Integers, Sequences, FiniteSets, TLC

(***************************************************************************)
(* Bounds of the model.                                                    *)
(***************************************************************************)
\* retry_max_count is drawn from 0..MaxRetryCount
MaxRetryCount == 3
\* the remote table starts with at most MaxInitRows rows
MaxInitRows == 2

(***************************************************************************)
(* Python values.  Every value is a record of the same shape so that any   *)
(* two values can be compared: its type, its text parts and its numbers.   *)
(***************************************************************************)
IntV(n) == [type |-> "int", str |-> <<>>, num |-> <<n>>]
\* bool is a subclass of int: True == 1 and False == 0
BoolV(b) == [type |-> "bool", str |-> <<>>, num |-> <<IF b THEN 1 ELSE 0>>]
NoneV == [type |-> "None", str |-> <<>>, num |-> <<>>]
StrV(s) == [type |-> "str", str |-> <<s>>, num |-> <<>>]
ListV(labels) == [type |-> "list", str |-> labels, num |-> <<>>]
DateTimeV(Y, M, D, h, m, s) ==
    [type |-> "datetime", str |-> <<>>, num |-> <<Y, M, D, h, m, s>>]
\* a formatted date: the layout of the text and the numbers printed in it
TextV(layout, nums) == [type |-> "str", str |-> <<layout>>, num |-> nums]

\* Python's ==, as `x in [1, True]` uses it: 1 == True == 1.0
PyEq(a, b) ==
    IF a.type \in {"int", "bool"} /\ b.type \in {"int", "bool"}
    THEN a.num = b.num
    ELSE a = b

(***************************************************************************)
(* Dictionaries are functions from a finite set of keys.                   *)
(***************************************************************************)
EmptyDict == [k \in {} |-> NoneV]
Has(d, k) == k \in DOMAIN d
Put(d, k, v) == [x \in (DOMAIN d) \cup {k} |-> IF x = k THEN v ELSE d[x]]
Pop(d, k) == [x \in (DOMAIN d) \ {k} |-> d[x]]
Merge(d, e) == [x \in (DOMAIN d) \cup (DOMAIN e) |-> IF x \in DOMAIN e THEN e[x] ELSE d[x]]

(***************************************************************************)
(* The schema: the table's fields in field_names order.                    *)
(***************************************************************************)
Field(name, type, primary, readonly, options, withtime, format) ==
    [name |-> name, TYPE |-> type, is_primary |-> primary,
     is_read_only |-> readonly, options |-> options,
     date_include_time |-> withtime, date_format |-> format]

NameField(primary, readonly) == Field("Name", "text", primary, readonly, <<>>, FALSE, "")
CodeField(primary) == Field("Code", "number", primary, FALSE, <<>>, FALSE, "")
SingleField(options) == Field("Single select", "single_select", FALSE, FALSE, options, FALSE, "")
MultiField == Field("Multiple select", "multiple_select", FALSE, FALSE, <<"X", "Y">>, FALSE, "")
DateFieldOf(withtime, format) == Field("Date", "date", FALSE, FALSE, <<>>, withtime, format)

\* the option labels of the single select: plain ones, or one that is also
\* the name of a column
SingleOptions == {<<"A", "B">>, <<"A", "Name">>}
DateConfigs == {<<FALSE, "ISO">>, <<TRUE, "ISO">>, <<FALSE, "%d.%m.%Y">>}
PrimarySets == {{}, {"Name"}, {"Name", "Code"}}

SchemaOf(P, ro, so, dc) ==
    <<NameField("Name" \in P, ro), CodeField("Code" \in P), SingleField(so),
      MultiField, DateFieldOf(dc[1], dc[2])>>

\* every choice of primary columns, read-only flag and option labels with a
\* US date and time column, and the plain schema with the other date columns
Schemas ==
    {SchemaOf(P, ro, so, <<TRUE, "US">>) :
        P \in PrimarySets, ro \in BOOLEAN, so \in SingleOptions}
    \cup {SchemaOf({"Name"}, FALSE, <<"A", "B">>, dc) : dc \in DateConfigs}

SchemaKeys(sch) == {sch[i].name : i \in 1..Len(sch)}

\* schemas for the folding of option flags: the name as primary column and
\* the two select columns, with option labels of their own, with a label
\* the two columns share (the multiple select first, or the single select
\* first), or with a label that is the name of the other select column
MultiFieldOf(options) ==
    Field("Multiple select", "multiple_select", FALSE, FALSE, options, FALSE, "")

FoldSchemas ==
    {<<NameField(TRUE, FALSE), SingleField(<<"A", "B">>), MultiFieldOf(<<"X", "Y">>)>>,
     <<NameField(TRUE, FALSE), MultiFieldOf(<<"X", "A">>), SingleField(<<"A", "B">>)>>,
     <<NameField(TRUE, FALSE), SingleField(<<"A", "B">>), MultiFieldOf(<<"B", "X">>)>>,
     <<NameField(TRUE, FALSE), MultiFieldOf(<<"X", "Single select">>),
       SingleField(<<"A", "B">>)>>}

(***************************************************************************)
(* The records a caller passes to update_row.                              *)
(***************************************************************************)
KeyParts ==
    {Merge(n, c) :
        n \in {EmptyDict, [k \in {"Name"} |-> IntV(1)], [k \in {"Name"} |-> IntV(2)]},
        c \in {EmptyDict, [k \in {"Code"} |-> IntV(1)]}}

RestParts ==
    {EmptyDict,
     [k \in {"A"} |-> BoolV(TRUE)],
     [k \in {"A", "B"} |-> IF k = "A" THEN BoolV(TRUE) ELSE IntV(1)],
     [k \in {"Single select", "A"} |-> IF k = "A" THEN BoolV(TRUE) ELSE StrV("B")],
     [k \in {"X", "Y"} |-> IF k = "X" THEN IntV(1) ELSE BoolV(FALSE)],
     [k \in {"Date"} |-> DateTimeV(2024, 10, 12, 14, 35, 16)],
     [k \in {"Date"} |-> StrV("2024-10-12")],
     [k \in {"Q"} |-> IntV(7)]}

Records == {Merge(kp, rp) : kp \in KeyParts, rp \in RestParts}

\* records for the folding of option flags: the name 1, each of the flags
\* A, B and X absent, True or False, and the single select absent, None or
\* the label B
FlagParts(label) ==
    {EmptyDict, [k \in {label} |-> BoolV(TRUE)], [k \in {label} |-> BoolV(FALSE)]}

ExplicitParts ==
    {EmptyDict, [k \in {"Single select"} |-> NoneV], [k \in {"Single select"} |-> StrV("B")]}

FoldRecords ==
    {Merge([k \in {"Name"} |-> IntV(1)], Merge(Merge(a, b), Merge(x, e))) :
        a \in FlagParts("A"), b \in FlagParts("B"), x \in FlagParts("X"), e \in ExplicitParts}

(***************************************************************************)
(* The remote table: rows in creation order, the id of a row is its place. *)
(***************************************************************************)
InitRow(id, name) ==
    [id |-> id, fields |-> [k \in {"Name", "Code"} |-> IF k = "Name" THEN IntV(name) ELSE IntV(1)]]

\* up to MaxInitRows rows named 1, alone or after a row named 2
InitTables ==
    {[i \in 1..n |-> InitRow(i, 1)] : n \in 0..MaxInitRows}
    \cup {[i \in 1..(n + 1) |-> InitRow(i, IF i = 1 THEN 2 ELSE 1)] : n \in 0..MaxInitRows}

(***************************************************************************)
(* Step by step of update_row between its service calls (lines 80-163).    *)
(***************************************************************************)
\* line 81
PrimaryCols(sch) == SelectSeq(sch, LAMBDA x : x.is_primary)

\* faulty variant: the test for a missing primary column never fires
NoPrimary_Never(primary_cols) == Len(primary_cols) < 0

\* line 82
NoPrimary(primary_cols) == Len(primary_cols) = 0

\* line 85: one equality filter per primary column, in schema order
Filters(primary_cols, d) ==
    [i \in 1..Len(primary_cols) |->
        [field |-> primary_cols[i].name, value |-> d[primary_cols[i].name]]]

\* line 85 raises KeyError when the record lacks a primary column's name
FiltersKeyError(primary_cols, d) ==
    \E i \in 1..Len(primary_cols) : ~Has(d, primary_cols[i].name)

\* lines 94-98: the first primary column that is read only or missing
RECURSIVE PrimaryError(_, _, _)
PrimaryError(primary_cols, i, d) ==
    IF i > Len(primary_cols) THEN ""
    ELSE IF primary_cols[i].is_read_only THEN "Primary column is read only"
    ELSE IF ~Has(d, primary_cols[i].name) THEN "Primary column is missing"
    ELSE PrimaryError(primary_cols, i + 1, d)

\* line 102
OptionCols(sch) ==
    SelectSeq(sch, LAMBDA x : x.TYPE \in {"single_select", "multiple_select"})

\* line 110: update_data[option] in [1, True]
IsSelected(v) == PyEq(v, IntV(1)) \/ PyEq(v, BoolV(TRUE))

\* lines 108-112: the options of one column, in order; every option that is
\* a key of update_data is popped, the selected ones are collected
RECURSIVE FoldOptions(_, _, _, _)
FoldOptions(options, i, ud, acc) ==
    IF i > Len(options) THEN [update_data |-> ud, values |-> acc]
    ELSE IF Has(ud, options[i])
         THEN FoldOptions(options, i + 1, Pop(ud, options[i]),
                          IF IsSelected(ud[options[i]]) THEN Append(acc, options[i]) ELSE acc)
         ELSE FoldOptions(options, i + 1, ud, acc)

\* lines 105-116: the option columns in order; stops at the first single
\* select with more than one selected option
RECURSIVE FoldCols(_, _, _, _)
FoldCols(option_cols, i, ud, ov) ==
    IF i > Len(option_cols) THEN [error |-> "", update_data |-> ud, option_values |-> ov]
    ELSE LET col == option_cols[i]
             f == FoldOptions(col.options, 1, ud, <<>>)
             ov2 == Put(ov, col.name, f.values)
         IN IF col.TYPE = "single_select" /\ Len(f.values) > 1
            THEN [error |-> "Multiple options for single select",
                  update_data |-> f.update_data, option_values |-> ov2]
            ELSE FoldCols(option_cols, i + 1, f.update_data, ov2)

\* lines 118-130: a column with selected options and no value (or None)
\* under its own name gets the first option or the list of them
RECURSIVE AssignCols(_, _, _, _)
AssignCols(option_cols, i, ud, ov) ==
    IF i > Len(option_cols) THEN ud
    ELSE LET col == option_cols[i]
             col_option_values == ov[col.name]
         IN IF Len(col_option_values) = 0
            THEN AssignCols(option_cols, i + 1, ud, ov)
            ELSE IF Has(ud, col.name) /\ ud[col.name] # NoneV
            THEN AssignCols(option_cols, i + 1, ud, ov)
            ELSE IF col.TYPE = "single_select"
            THEN AssignCols(option_cols, i + 1,
                            Put(ud, col.name, StrV(col_option_values[1])), ov)
            ELSE AssignCols(option_cols, i + 1,
                            Put(ud, col.name, ListV(col_option_values)), ov)

\* line 132
DateCols(sch) == SelectSeq(sch, LAMBDA x : x.TYPE = "date")

\* %I: the hour on the 12-hour clock
Hour12(h) == IF h % 12 = 0 THEN 12 ELSE h % 12

\* lines 142-157
FormatDate(col, v) ==
    LET Y == v.num[1]  M == v.num[2]  D == v.num[3]
        h == v.num[4]  m == v.num[5]  s == v.num[6]
    IN IF col.date_include_time
       THEN IF col.date_format = "ISO"
            THEN TextV("YYYY-MM-DDThh:mm:ss", <<Y, M, D, h, m, s>>)
            ELSE IF col.date_format = "US"
            THEN TextV(IF h < 12 THEN "MM/DD/YYYY hh:mm:ss AM" ELSE "MM/DD/YYYY hh:mm:ss PM",
                       <<M, D, Y, Hour12(h), m, s>>)
            ELSE TextV(col.date_format, <<Y, M, D, h, m, s>>)
       ELSE IF col.date_format = "ISO"
            THEN TextV("YYYY-MM-DD", <<Y, M, D>>)
            ELSE IF col.date_format = "US"
            THEN TextV("MM/DD/YYYY", <<M, D, Y>>)
            ELSE TextV("YYYY-MM-DD", <<Y, M, D>>)

\* lines 133-157: the date columns in order.  The name datetime is bound
\* only by the import at line 170, which runs when the file is the main
\* program: datetime_bound says whether it is.
RECURSIVE FormatDates(_, _, _, _)
FormatDates(date_cols, i, ud, datetime_bound) ==
    IF i > Len(date_cols) THEN [error |-> "", update_data |-> ud]
    ELSE LET col == date_cols[i]
         IN IF ~Has(ud, col.name)
            THEN FormatDates(date_cols, i + 1, ud, datetime_bound)
            ELSE IF ~datetime_bound
            THEN [error |-> "NameError", update_data |-> ud]
            ELSE IF ud[col.name].type # "datetime"
            THEN [error |-> "Invalid date value for column", update_data |-> ud]
            ELSE FormatDates(date_cols, i + 1,
                             Put(ud, col.name, FormatDate(col, ud[col.name])),
                             datetime_bound)

\* faulty variant: the membership test is skipped
UnknownColumn_Skipped(sch, ud) == FALSE

\* lines 159-161
UnknownColumn(sch, ud) == \E k \in DOMAIN ud : k \notin SchemaKeys(sch)

\* lines 88-90: the id of the only matching row, or -1
RowIdOf(matching) == IF Len(matching) = 1 THEN matching[1] ELSE -1

\* faulty variant: the test for several rows is off by one
MultipleFound_OffByOne(matching) == Len(matching) > 2

\* line 91
MultipleFound(matching) == Len(matching) > 1

\* lines 88-163: what update_row does with the rows the lookup returned,
\* up to the write: the error it raises ("" for none), the row id and the
\* payload
Normalize(sch, d, matching, datetime_bound) ==
    LET rid == RowIdOf(matching)
        perr == PrimaryError(PrimaryCols(sch), 1, d)
        folded == FoldCols(OptionCols(sch), 1, d, EmptyDict)
        assigned == AssignCols(OptionCols(sch), 1, folded.update_data, folded.option_values)
        dated == FormatDates(DateCols(sch), 1, assigned, datetime_bound)
        Raise(e, ud) == [error |-> e, row_id |-> rid, update_data |-> ud]
    IN IF MultipleFound(matching) THEN Raise("Multiple rows found", EmptyDict)
       ELSE IF perr # "" THEN Raise(perr, EmptyDict)
       ELSE IF folded.error # "" THEN Raise(folded.error, folded.update_data)
       ELSE IF dated.error # "" THEN Raise(dated.error, dated.update_data)
       ELSE IF UnknownColumn(sch, dated.update_data)
       THEN Raise("Column not found in schema", dated.update_data)
       ELSE Raise("", dated.update_data)


(***************************************************************************)
(* The table service (baserowapi), as update_baserow.py uses it.           *)
(***************************************************************************)
\* table.get_rows(filters, filter_type='AND'): the ids of the rows whose
\* fields equal every filter's value, in table order
RowMatches(row, filters) ==
    \A i \in 1..Len(filters) :
        Has(row.fields, filters[i].field) /\ row.fields[filters[i].field] = filters[i].value

RECURSIVE MatchingIds(_, _, _)
MatchingIds(table, filters, i) ==
    IF i > Len(table) THEN <<>>
    ELSE IF RowMatches(table[i], filters)
         THEN <<table[i].id>> \o MatchingIds(table, filters, i + 1)
         ELSE MatchingIds(table, filters, i + 1)

GetRows(table, filters) == MatchingIds(table, filters, 1)

\* table.add_rows(payload): a new row at the end, with the next id
AddRows(table, payload) ==
    Append(table, [id |-> Len(table) + 1, fields |-> payload])

\* table.update_rows([payload]): the row with the payload's id takes the
\* payload's values
UpdateRows(table, payload) ==
    [i \in 1..Len(table) |->
        IF IntV(table[i].id) = payload["id"]
        THEN [table[i] EXCEPT !.fields = Merge(@, Pop(payload, "id"))]
        ELSE table[i]]

\* faulty variant: the write that raised was applied all the same
FailedWrite_Applied(table, payload) ==
    IF Has(payload, "id") THEN UpdateRows(table, payload) ELSE AddRows(table, payload)

\* a call of add_rows or update_rows that raises: nothing of the payload
\* is applied
FailedWrite(table, payload) == table

(***************************************************************************)
(* State.                                                                  *)
(***************************************************************************)
VARIABLES
    schema,           \* self.schema
    retry_max_count,  \* self.retry_max_count
    rows,             \* the remote table
    callers,          \* the callers of update_row
    pc,               \* where each caller's call is
    data,             \* each caller's record (the dict data refers to)
    filters,          \* line 85
    matching_rows,    \* line 86
    row_id,           \* lines 88-90, 164
    update_data,      \* line 100: the working copy
    retry_count,      \* the retry_count of the running find_rows or __upsert_row_to_table
    error,            \* the exception update_row raised
    log,              \* each caller's service calls and sleeps, in order
    before,           \* the remote table when the call began
    passed            \* the caller's record as it was when the call began

vars == <<schema, retry_max_count, rows, callers, pc, data, filters, matching_rows,
          row_id, update_data, retry_count, error, log, before, passed>>

\* line 10: the default of retry_wait_seconds
retry_wait_seconds == 10

Event(op, res, secs) == [op |-> op, res |-> res, secs |-> secs]

Init ==
    /\ schema \in Schemas
    /\ retry_max_count \in 0..MaxRetryCount
    /\ rows \in InitTables
    /\ callers = {1}
    /\ pc = [c \in callers |-> "idle"]
    /\ data = [c \in callers |-> EmptyDict]
    /\ filters = [c \in callers |-> <<>>]
    /\ matching_rows = [c \in callers |-> <<>>]
    /\ row_id = [c \in callers |-> -1]
    /\ update_data = [c \in callers |-> EmptyDict]
    /\ retry_count = [c \in callers |-> 0]
    /\ error = [c \in callers |-> ""]
    /\ log = [c \in callers |-> <<>>]
    /\ before = [c \in callers |-> <<>>]
    /\ passed = [c \in callers |-> EmptyDict]

(***************************************************************************)
(* update_row, lines 79-85: up to the call of find_rows.                   *)
(***************************************************************************)
update_row(c, record) ==
    /\ pc[c] = "idle"
    /\ data' = [data EXCEPT ![c] = record]
    /\ before' = [before EXCEPT ![c] = rows]
    /\ passed' = [passed EXCEPT ![c] = record]
    /\ LET primary_cols == PrimaryCols(schema)
       IN IF NoPrimary(primary_cols)
          THEN /\ pc' = [pc EXCEPT ![c] = "raised"]
               /\ error' = [error EXCEPT ![c] = "No primary column found"]
               /\ UNCHANGED filters
          ELSE IF FiltersKeyError(primary_cols, record)
          THEN /\ pc' = [pc EXCEPT ![c] = "raised"]
               /\ error' = [error EXCEPT ![c] = "KeyError"]
               /\ UNCHANGED filters
          ELSE /\ pc' = [pc EXCEPT ![c] = "find_rows"]
               /\ filters' = [filters EXCEPT ![c] = Filters(primary_cols, record)]
               /\ UNCHANGED error
    /\ UNCHANGED <<schema, retry_max_count, rows, callers, matching_rows, row_id,
                   update_data, retry_count, log>>

(***************************************************************************)
(* find_rows, lines 65-77: one attempt of table.get_rows.                  *)
(***************************************************************************)
\* lines 67, 77: the query answers
find_rows_ok(c) ==
    /\ pc[c] = "find_rows"
    /\ matching_rows' = [matching_rows EXCEPT ![c] = GetRows(rows, filters[c])]
    /\ log' = [log EXCEPT ![c] = Append(@, Event("get_rows", "ok", 0))]
    /\ pc' = [pc EXCEPT ![c] = "matched"]
    /\ retry_count' = [retry_count EXCEPT ![c] = 0]
    /\ UNCHANGED <<schema, retry_max_count, rows, callers, data, filters, row_id,
                   update_data, error, before, passed>>

\* faulty variant: every exception is caught for a retry
IsTransient_Any(e) == TRUE

\* lines 56, 68: only HTTPError is caught for a retry
IsTransient(e) == e = "HTTPError"

\* faulty variant: one retry too many
MayRetry_OneMore(count, max) == count <= max

\* faulty variant: one retry too few
MayRetry_OneLess(count, max) == count + 1 < max

\* lines 58, 70: whether an HTTPError is retried
MayRetry(count, max) == count < max

\* faulty variant: the wait doubles with every retry
RetryWait_Exponential(count) == (2 ^ count) * retry_wait_seconds

\* lines 59, 71: the sleep before the retry
RetryWait(count) == (count + 1) * retry_wait_seconds

\* what the service raises: urllib3's HTTPError, or anything else
ServiceErrors == {"HTTPError", "Exception"}

\* lines 68-75: the query raises e
find_rows_raises(c, e) ==
    /\ pc[c] = "find_rows"
    /\ IF IsTransient(e) /\ MayRetry(retry_count[c], retry_max_count)
       THEN /\ log' = [log EXCEPT ![c] = @ \o <<Event("get_rows", e, 0),
                                               Event("sleep", "", RetryWait(retry_count[c]))>>]
            /\ retry_count' = [retry_count EXCEPT ![c] = @ + 1]
            /\ UNCHANGED <<pc, error>>
       ELSE /\ log' = [log EXCEPT ![c] = Append(@, Event("get_rows", e, 0))]
            /\ pc' = [pc EXCEPT ![c] = "raised"]
            /\ error' = [error EXCEPT ![c] = e]
            /\ UNCHANGED retry_count
    /\ UNCHANGED <<schema, retry_max_count, rows, callers, data, filters, matching_rows,
                   row_id, update_data, before, passed>>

(***************************************************************************)
(* update_row, lines 88-164: from the rows found to the call of            *)
(* __upsert_row_to_table.                                                  *)
(***************************************************************************)
\* faulty variant: update_data = data, the working copy is the caller's dict
CallerRecord_Aliased(d, ud) == ud

\* line 100: update_data is a deepcopy of data, so what lines 102-157 and
\* line 53 do to update_data (ud) leaves the caller's dict (d) as it was
CallerRecord(d, ud) == d

normalize(c) ==
    /\ pc[c] = "matched"
    /\ \E datetime_bound \in BOOLEAN :
         LET n == Normalize(schema, data[c], matching_rows[c], datetime_bound)
         IN /\ row_id' = [row_id EXCEPT ![c] = n.row_id]
            /\ update_data' = [update_data EXCEPT ![c] = n.update_data]
            /\ data' = [data EXCEPT ![c] = CallerRecord(@, n.update_data)]
            /\ error' = [error EXCEPT ![c] = n.error]
            /\ pc' = [pc EXCEPT ![c] = IF n.error = "" THEN "upsert" ELSE "raised"]
    /\ UNCHANGED <<schema, retry_max_count, rows, callers, filters, matching_rows,
                   retry_count, log, before, passed>>

(***************************************************************************)
(* __upsert_row_to_table, lines 47-63: one attempt of the write.           *)
(***************************************************************************)
\* faulty variant: the row id found is ignored and every write is an insert
IsInsert_Always(rid) == TRUE

\* line 49
IsInsert(rid) == rid = -1

\* lines 50, 54: the service call of this attempt
WriteOp(rid) == IF IsInsert(rid) THEN "add_rows" ELSE "update_rows"

\* line 53: an update carries the row's id in the payload
Payload(ud, rid) == IF IsInsert(rid) THEN ud ELSE Put(ud, "id", IntV(rid))

\* lines 50-51, 54-55: the write succeeds and the row id is returned
upsert_ok(c) ==
    /\ pc[c] = "upsert"
    /\ update_data' = [update_data EXCEPT ![c] = Payload(@, row_id[c])]
    /\ data' = [data EXCEPT ![c] = CallerRecord(@, Payload(update_data[c], row_id[c]))]
    /\ IF IsInsert(row_id[c])
       THEN /\ rows' = AddRows(rows, update_data[c])
            /\ row_id' = [row_id EXCEPT ![c] = rows'[Len(rows')].id]
       ELSE /\ rows' = UpdateRows(rows, Payload(update_data[c], row_id[c]))
            /\ UNCHANGED row_id
    /\ log' = [log EXCEPT ![c] = Append(@, Event(WriteOp(row_id[c]), "ok", 0))]
    /\ pc' = [pc EXCEPT ![c] = "returned"]
    /\ UNCHANGED <<schema, retry_max_count, callers, filters, matching_rows,
                   retry_count, error, before, passed>>

\* lines 56-63: the write raises e
upsert_raises(c, e) ==
    /\ pc[c] = "upsert"
    /\ update_data' = [update_data EXCEPT ![c] = Payload(@, row_id[c])]
    /\ data' = [data EXCEPT ![c] = CallerRecord(@, Payload(update_data[c], row_id[c]))]
    /\ IF IsTransient(e) /\ MayRetry(retry_count[c], retry_max_count)
       THEN /\ log' = [log EXCEPT ![c] = @ \o <<Event(WriteOp(row_id[c]), e, 0),
                                               Event("sleep", "", RetryWait(retry_count[c]))>>]
            /\ retry_count' = [retry_count EXCEPT ![c] = @ + 1]
            /\ UNCHANGED <<pc, error>>
       ELSE /\ log' = [log EXCEPT ![c] = Append(@, Event(WriteOp(row_id[c]), e, 0))]
            /\ pc' = [pc EXCEPT ![c] = "raised"]
            /\ error' = [error EXCEPT ![c] = e]
            /\ UNCHANGED retry_count
    /\ rows' = FailedWrite(rows, Payload(update_data[c], row_id[c]))
    /\ UNCHANGED <<schema, retry_max_count, callers, filters, matching_rows,
                   row_id, before, passed>>

Next ==
    \/ \E c \in callers, record \in Records : update_row(c, record)
    \/ \E c \in callers : find_rows_ok(c)
    \/ \E c \in callers, e \in ServiceErrors : find_rows_raises(c, e)
    \/ \E c \in callers : normalize(c)
    \/ \E c \in callers : upsert_ok(c)
    \/ \E c \in callers, e \in ServiceErrors : upsert_raises(c, e)

Spec == Init /\ [][Next]_vars

\* a step of a call that has begun: Python runs update_row to its end, and
\* every call of the service either answers or raises
Running ==
    \/ \E c \in callers : find_rows_ok(c)
    \/ \E c \in callers, e \in ServiceErrors : find_rows_raises(c, e)
    \/ \E c \in callers : normalize(c)
    \/ \E c \in callers : upsert_ok(c)
    \/ \E c \in callers, e \in ServiceErrors : upsert_raises(c, e)

\* calls that end in each of the ways update_row can end: a record that is
\* written, one without the primary value, one with both flags of the
\* single select, one with an unknown key
LiveRecords ==
    {[k \in {"Name"} |-> IntV(1)],
     EmptyDict,
     [k \in {"Name", "A", "B"} |-> IF k = "Name" THEN IntV(1) ELSE BoolV(TRUE)],
     [k \in {"Name", "Q"} |-> IF k = "Name" THEN IntV(1) ELSE IntV(7)]}

InitLive ==
    /\ schema \in {SchemaOf(P, FALSE, <<"A", "B">>, <<TRUE, "US">>) : P \in PrimarySets}
    /\ retry_max_count \in 0..MaxRetryCount
    /\ rows \in {<<>>, <<InitRow(1, 1)>>, <<InitRow(1, 1), InitRow(2, 1)>>}
    /\ callers = {1}
    /\ pc = [c \in callers |-> "idle"]
    /\ data = [c \in callers |-> EmptyDict]
    /\ filters = [c \in callers |-> <<>>]
    /\ matching_rows = [c \in callers |-> <<>>]
    /\ row_id = [c \in callers |-> -1]
    /\ update_data = [c \in callers |-> EmptyDict]
    /\ retry_count = [c \in callers |-> 0]
    /\ error = [c \in callers |-> ""]
    /\ log = [c \in callers |-> <<>>]
    /\ before = [c \in callers |-> <<>>]
    /\ passed = [c \in callers |-> EmptyDict]

NextLive ==
    \/ \E c \in callers, record \in LiveRecords : update_row(c, record)
    \/ \E c \in callers : find_rows_ok(c)
    \/ \E c \in callers, e \in ServiceErrors : find_rows_raises(c, e)
    \/ \E c \in callers : normalize(c)
    \/ \E c \in callers : upsert_ok(c)
    \/ \E c \in callers, e \in ServiceErrors : upsert_raises(c, e)

\* the call does not stop half way; which of the service's answers it gets
\* is left open, so the service may raise HTTPError on every call
SpecLive == InitLive /\ [][NextLive]_vars /\ WF_vars(Running)

(***************************************************************************)
(* The same program on the schemas and records for the folding of option   *)
(* flags, with the table empty or holding the row named 1.                 *)
(***************************************************************************)
InitFold ==
    /\ schema \in FoldSchemas
    /\ retry_max_count \in {0, 1}
    /\ rows \in {<<>>, <<InitRow(1, 1)>>}
    /\ callers = {1}
    /\ pc = [c \in callers |-> "idle"]
    /\ data = [c \in callers |-> EmptyDict]
    /\ filters = [c \in callers |-> <<>>]
    /\ matching_rows = [c \in callers |-> <<>>]
    /\ row_id = [c \in callers |-> -1]
    /\ update_data = [c \in callers |-> EmptyDict]
    /\ retry_count = [c \in callers |-> 0]
    /\ error = [c \in callers |-> ""]
    /\ log = [c \in callers |-> <<>>]
    /\ before = [c \in callers |-> <<>>]
    /\ passed = [c \in callers |-> EmptyDict]

NextFold ==
    \/ \E c \in callers, record \in FoldRecords : update_row(c, record)
    \/ \E c \in callers : find_rows_ok(c)
    \/ \E c \in callers, e \in ServiceErrors : find_rows_raises(c, e)
    \/ \E c \in callers : normalize(c)
    \/ \E c \in callers : upsert_ok(c)
    \/ \E c \in callers, e \in ServiceErrors : upsert_raises(c, e)

SpecFold == InitFold /\ [][NextFold]_vars

(***************************************************************************)
(* Two callers, each making one call of update_row for the name 1 on the   *)
(* same table with nothing to serialize them: every service call of the    *)
(* one can fall between two service calls of the other.  The table holds   *)
(* no row named 1 at the start.                                            *)
(***************************************************************************)
RaceRecords ==
    {[k \in {"Name"} |-> IntV(1)],
     [k \in {"Name", "A"} |-> IF k = "Name" THEN IntV(1) ELSE BoolV(TRUE)]}

InitRace ==
    /\ schema = SchemaOf({"Name"}, FALSE, <<"A", "B">>, <<TRUE, "US">>)
    /\ retry_max_count \in {0, 1}
    /\ rows \in {<<>>, <<InitRow(1, 2)>>}
    /\ callers = {1, 2}
    /\ pc = [c \in callers |-> "idle"]
    /\ data = [c \in callers |-> EmptyDict]
    /\ filters = [c \in callers |-> <<>>]
    /\ matching_rows = [c \in callers |-> <<>>]
    /\ row_id = [c \in callers |-> -1]
    /\ update_data = [c \in callers |-> EmptyDict]
    /\ retry_count = [c \in callers |-> 0]
    /\ error = [c \in callers |-> ""]
    /\ log = [c \in callers |-> <<>>]
    /\ before = [c \in callers |-> <<>>]
    /\ passed = [c \in callers |-> EmptyDict]

NextRace ==
    \/ \E c \in callers, record \in RaceRecords : update_row(c, record)
    \/ \E c \in callers : find_rows_ok(c)
    \/ \E c \in callers, e \in ServiceErrors : find_rows_raises(c, e)
    \/ \E c \in callers : normalize(c)
    \/ \E c \in callers : upsert_ok(c)
    \/ \E c \in callers, e \in ServiceErrors : upsert_raises(c, e)

SpecRace == InitRace /\ [][NextRace]_vars

TypeOK ==
    /\ schema \in Schemas \cup FoldSchemas
    /\ retry_max_count \in 0..MaxRetryCount
    /\ \A c \in callers :
        /\ pc[c] \in {"idle", "find_rows", "matched", "upsert", "returned", "raised"}
        /\ retry_count[c] \in 0..retry_max_count
        /\ row_id[c] \in {-1} \cup 1..Len(rows)
        /\ (pc[c] = "raised") <=> (error[c] # "")

(***************************************************************************)
(* What the claims speak of, read off the state.                           *)
(***************************************************************************)
WriteOps == {"add_rows", "update_rows"}

\* the places in caller c's log of the calls of the given service operations
CallsAt(c, ops) == {i \in 1..Len(log[c]) : log[c][i].op \in ops}
LookupCalls(c) == Cardinality(CallsAt(c, {"get_rows"}))
WriteCalls(c) == Cardinality(CallsAt(c, WriteOps))

\* how many of those calls ended in res
Results(c, ops, res) == Cardinality({i \in CallsAt(c, ops) : log[c][i].res = res})

\* the call has left update_row's first lines with a lookup to make
Called(c) == pc[c] # "idle"

\* the rows of the table, as it was when the call began, that have the
\* record's primary values
Matched(c) == GetRows(before[c], filters[c])

\* the lookup has answered
LookedUp(c) == Results(c, {"get_rows"}, "ok") > 0

(***************************************************************************)
(* C1: for a record whose primary values match no remote row, an upsert    *)
(* that returns has created exactly one row: the table is the old table    *)
(* plus one row, the new row holds the record's value in every primary     *)
(* column, and the id returned is the new row's id.                        *)
(***************************************************************************)
C1_CreatesRowWithPrimaryValues ==
    \A c \in callers :
        (pc[c] = "returned" /\ Matched(c) = <<>>) =>
            /\ Len(rows) = Len(before[c]) + 1
            /\ SubSeq(rows, 1, Len(before[c])) = before[c]
            /\ row_id[c] = rows[Len(rows)].id
            /\ \A i \in 1..Len(filters[c]) :
                 /\ Has(rows[Len(rows)].fields, filters[c][i].field)
                 /\ rows[Len(rows)].fields[filters[c][i].field] = data[c][filters[c][i].field]

(***************************************************************************)
(* C2: for a record whose primary values match exactly one remote row,     *)
(* every write the call makes is an update carrying that row's id, no row  *)
(* is created, and the id returned is that row's id.                       *)
(***************************************************************************)
C2_UpdatesTheMatchedRow ==
    \A c \in callers :
        (LookedUp(c) /\ Len(Matched(c)) = 1) =>
            /\ CallsAt(c, {"add_rows"}) = {}
            /\ Len(rows) = Len(before[c])
            /\ CallsAt(c, {"update_rows"}) # {} =>
                 /\ Has(update_data[c], "id")
                 /\ update_data[c]["id"] = IntV(Matched(c)[1])
            /\ pc[c] = "returned" =>
                 /\ row_id[c] = Matched(c)[1]
                 /\ log[c][Len(log[c])] = Event("update_rows", "ok", 0)

\* an update of the second row of the table has returned
C2_Witness ==
    \E c \in callers :
        /\ pc[c] = "returned"
        /\ Matched(c) = <<2>>
        /\ row_id[c] = 2
        /\ Results(c, {"update_rows"}, "HTTPError") > 0

(***************************************************************************)
(* C3: when the lookup returns more than one row the call raises           *)
(* "Multiple rows found" and makes no create or update call.               *)
(***************************************************************************)
C3_MultipleRowsRaise ==
    \A c \in callers :
        Len(matching_rows[c]) > 1 =>
            /\ pc[c] \in {"matched", "raised"}
            /\ pc[c] = "raised" => error[c] = "Multiple rows found"
            /\ WriteCalls(c) = 0
            /\ rows = before[c]

\* the call has raised on two matching rows
C3_Witness ==
    \E c \in callers :
        /\ pc[c] = "raised"
        /\ Len(matching_rows[c]) = 2
        /\ error[c] = "Multiple rows found"

(***************************************************************************)
(* C4, as claimed: neither the lookup nor the write is ever called more    *)
(* than retry_max_count times in one call of update_row.                   *)
(***************************************************************************)
C4_AtMostMaxCountCalls ==
    \A c \in callers :
        /\ LookupCalls(c) <= retry_max_count
        /\ WriteCalls(c) <= retry_max_count

(***************************************************************************)
(* C4, amended: the lookup and the write are each called at most           *)
(* retry_max_count + 1 times, the first attempt and retry_max_count        *)
(* retries; when every call fails with HTTPError the operation is called   *)
(* exactly retry_max_count + 1 times and then HTTPError is raised.         *)
(***************************************************************************)
C4_AtMostMaxCountRetries ==
    \A c \in callers :
        /\ LookupCalls(c) <= retry_max_count + 1
        /\ WriteCalls(c) <= retry_max_count + 1
        /\ (pc[c] = "raised" /\ error[c] = "HTTPError" /\ WriteCalls(c) = 0) =>
             /\ LookupCalls(c) = retry_max_count + 1
             /\ Results(c, {"get_rows"}, "HTTPError") = retry_max_count + 1
        /\ (pc[c] = "raised" /\ error[c] = "HTTPError" /\ WriteCalls(c) > 0) =>
             /\ WriteCalls(c) = retry_max_count + 1
             /\ Results(c, WriteOps, "HTTPError") = retry_max_count + 1

\* the write has failed with HTTPError MaxRetryCount + 1 times and raised
C4_Witness ==
    \E c \in callers :
        /\ pc[c] = "raised"
        /\ error[c] = "HTTPError"
        /\ retry_max_count = MaxRetryCount
        /\ WriteCalls(c) = MaxRetryCount + 1

(***************************************************************************)
(* C5: up to retry_max_count HTTPErrors in a row are not surfaced: the     *)
(* call raises HTTPError only after more than retry_max_count of them in   *)
(* the failing operation, a lookup that answers after them lets the call   *)
(* go on, and a write that succeeds after them returns a row id.           *)
(***************************************************************************)
C5_FailuresWithinBoundNotSurfaced ==
    \A c \in callers :
        /\ error[c] = "HTTPError" =>
             \/ Results(c, {"get_rows"}, "HTTPError") > retry_max_count
             \/ Results(c, WriteOps, "HTTPError") > retry_max_count
        /\ (LookedUp(c) /\ WriteCalls(c) = 0) => error[c] \notin ServiceErrors
        /\ Results(c, WriteOps, "ok") > 0 =>
             /\ pc[c] = "returned"
             /\ error[c] = ""
             /\ row_id[c] \in 1..Len(rows)

\* the call has returned after retry_max_count failures of the lookup and
\* as many of the write
C5_Witness ==
    \E c \in callers :
        /\ pc[c] = "returned"
        /\ retry_max_count = MaxRetryCount
        /\ Results(c, {"get_rows"}, "HTTPError") = retry_max_count
        /\ Results(c, WriteOps, "HTTPError") = retry_max_count

(***************************************************************************)
(* C6: once the lookup or the write has failed with HTTPError more than    *)
(* retry_max_count times the call has raised HTTPError: it returns no row  *)
(* id, and after the lookup's exhaustion no write call is made.            *)
(***************************************************************************)
C6_ExhaustionReraises ==
    \A c \in callers :
        /\ Results(c, {"get_rows"}, "HTTPError") > retry_max_count =>
             /\ pc[c] = "raised"
             /\ error[c] = "HTTPError"
             /\ WriteCalls(c) = 0
             /\ rows = before[c]
        /\ Results(c, WriteOps, "HTTPError") > retry_max_count =>
             /\ pc[c] = "raised"
             /\ error[c] = "HTTPError"
             /\ Results(c, WriteOps, "ok") = 0

\* the lookup has been exhausted with at least one retry
C6_Witness ==
    \E c \in callers :
        /\ retry_max_count > 0
        /\ Results(c, {"get_rows"}, "HTTPError") > retry_max_count
        /\ error[c] = "HTTPError"

(***************************************************************************)
(* C7: an exception of the service that is not an HTTPError is raised to   *)
(* the caller at once: it is the last event of the call, no sleep and no   *)
(* further call follows it, and the failing operation was attempted once   *)
(* more than it had failed with HTTPError.                                 *)
(***************************************************************************)
C7_OtherExceptionsNotRetried ==
    \A c \in callers :
        \A i \in 1..Len(log[c]) :
            log[c][i].res = "Exception" =>
                /\ i = Len(log[c])
                /\ pc[c] = "raised"
                /\ error[c] = "Exception"
                /\ LET ops == IF log[c][i].op = "get_rows" THEN {"get_rows"} ELSE WriteOps
                   IN Cardinality(CallsAt(c, ops)) = Results(c, ops, "HTTPError") + 1

\* the first attempt of the write has raised another exception, with
\* retries allowed
C7_Witness ==
    \E c \in callers :
        /\ error[c] = "Exception"
        /\ retry_max_count = MaxRetryCount
        /\ WriteCalls(c) = 1

(***************************************************************************)
(* C8: every sleep follows an HTTPError and is followed by a retry of the  *)
(* same operation, and the n-th sleep of an operation lasts                *)
(* n * retry_wait_seconds; no sleep precedes an operation's first attempt. *)
(***************************************************************************)
\* how many sleeps of the operation called at place j are at or before i
SleepsUpTo(c, i, j) ==
    LET ops == IF log[c][j].op = "get_rows" THEN {"get_rows"} ELSE WriteOps
    IN Cardinality({k \in 2..i : log[c][k].op = "sleep" /\ log[c][k - 1].op \in ops})

C8_LinearBackoff ==
    \A c \in callers :
        \A i \in 1..Len(log[c]) :
            log[c][i].op = "sleep" =>
                /\ i > 1
                /\ log[c][i - 1].op \in {"get_rows"} \cup WriteOps
                /\ log[c][i - 1].res = "HTTPError"
                /\ log[c][i].secs = SleepsUpTo(c, i, i - 1) * retry_wait_seconds
                /\ i < Len(log[c]) => log[c][i + 1].op = log[c][i - 1].op

\* the write has slept a third time, after a lookup that slept too
C8_Witness ==
    \E c \in callers :
        \E i \in 1..Len(log[c]) :
            /\ log[c][i].op = "sleep"
            /\ log[c][i - 1].op \in WriteOps
            /\ log[c][i].secs = 3 * retry_wait_seconds
            /\ Results(c, {"get_rows"}, "HTTPError") > 0

(***************************************************************************)
(* C9, as claimed: with no primary column, or more than one, the call      *)
(* raises before any service call.                                         *)
(***************************************************************************)
C9_NotOnePrimaryRaises ==
    \A c \in callers :
        (Called(c) /\ Len(PrimaryCols(schema)) # 1) =>
            /\ pc[c] # "returned"
            /\ log[c] = <<>>

(***************************************************************************)
(* C9, amended: with no primary column the call raises "No primary column  *)
(* found" before any service call; with several primary columns it looks   *)
(* the row up by all of them.                                              *)
(***************************************************************************)
C9_NoPrimaryRaises ==
    \A c \in callers :
        /\ (Called(c) /\ Len(PrimaryCols(schema)) = 0) =>
             /\ pc[c] = "raised"
             /\ error[c] = "No primary column found"
             /\ log[c] = <<>>
             /\ rows = before[c]
        /\ (Called(c) /\ error[c] # "KeyError" /\ Len(PrimaryCols(schema)) > 0) =>
             /\ Len(filters[c]) = Len(PrimaryCols(schema))
             /\ \A i \in 1..Len(filters[c]) :
                  /\ filters[c][i].field = PrimaryCols(schema)[i].name
                  /\ filters[c][i].value = data[c][filters[c][i].field]

\* a call on a schema without primary column has raised, on a table with rows
C9_Witness ==
    \E c \in callers :
        /\ pc[c] = "raised"
        /\ Len(PrimaryCols(schema)) = 0
        /\ Len(rows) > 0
        /\ Has(data[c], "Name")

(***************************************************************************)
(* C10, as claimed: with a read-only primary column, and a record that     *)
(* names every primary column, the call makes no service call and the      *)
(* error it raises is "Primary column is read only".                       *)
(***************************************************************************)
ReadOnlyPrimary == \E i \in 1..Len(schema) : schema[i].is_primary /\ schema[i].is_read_only

C10_ReadOnlyPrimaryRaisesFirst ==
    \A c \in callers :
        (Called(c) /\ ReadOnlyPrimary /\ error[c] # "KeyError") =>
            /\ log[c] = <<>>
            /\ pc[c] = "raised" => error[c] = "Primary column is read only"

(***************************************************************************)
(* C11, as claimed: when the record lacks the name of a primary column the *)
(* call raises "Primary column is missing", a ValueError like the other    *)
(* schema errors, and makes no service call.                               *)
(***************************************************************************)
LacksPrimary(c) == FiltersKeyError(PrimaryCols(schema), data[c])

C11_MissingPrimaryIsSchemaError ==
    \A c \in callers :
        (Called(c) /\ LacksPrimary(c)) =>
            /\ pc[c] = "raised"
            /\ error[c] = "Primary column is missing"
            /\ log[c] = <<>>

(***************************************************************************)
(* C12: a record with a key that is neither a column of the schema nor an  *)
(* option label of a select column never reaches the write: the table is   *)
(* untouched, and when the record is acceptable but for such keys the      *)
(* error raised after the lookup is "Column not found in schema".          *)
(***************************************************************************)
OptionLabels(sch) ==
    UNION {{sch[i].options[j] : j \in 1..Len(sch[i].options)} : i \in 1..Len(sch)}

UnknownKeys(sch, d) == {k \in DOMAIN d : k \notin SchemaKeys(sch) /\ k \notin OptionLabels(sch)}

Without(d, keys) == [k \in (DOMAIN d) \ keys |-> d[k]]

C12_UnknownColumnRaises ==
    \A c \in callers :
        (Called(c) /\ UnknownKeys(schema, data[c]) # {}) =>
            /\ pc[c] \notin {"upsert", "returned"}
            /\ WriteCalls(c) = 0
            /\ rows = before[c]
            /\ (pc[c] = "raised" /\ LookedUp(c) /\
                \A b \in BOOLEAN :
                    Normalize(schema, Without(data[c], UnknownKeys(schema, data[c])),
                              matching_rows[c], b).error = "") =>
                 error[c] = "Column not found in schema"

\* a call with the unknown key Q, on a schema with an option label that is
\* a column name, has raised after its lookup found the row
C12_Witness ==
    \E c \in callers :
        /\ pc[c] = "raised"
        /\ error[c] = "Column not found in schema"
        /\ Has(data[c], "Q")
        /\ Len(matching_rows[c]) = 1
        /\ "Name" \in OptionLabels(schema)

(***************************************************************************)
(* C13: no partial commits.  As long as no write of the call has           *)
(* succeeded the remote table is the table the call began with; so when    *)
(* the write fails and update_row raises, at once or after the retries are *)
(* used up, no row was created and no row was modified.                    *)
(***************************************************************************)
C13_FailedWriteLeavesTable ==
    \A c \in callers :
        /\ (Called(c) /\ Results(c, WriteOps, "ok") = 0) => rows = before[c]
        /\ (pc[c] = "raised" /\ WriteCalls(c) > 0) =>
              /\ Results(c, WriteOps, "ok") = 0
              /\ rows = before[c]

\* an update of a matched row has raised after more than one failed attempt
C13_Witness ==
    \E c \in callers :
        /\ pc[c] = "raised"
        /\ error[c] = "HTTPError"
        /\ Results(c, {"update_rows"}, "HTTPError") > 1
        /\ Has(update_data[c], "id")

(***************************************************************************)
(* C20: update_row never changes the caller's record: at every point of    *)
(* the call, and after it has returned or raised, the record has the keys  *)
(* and values it was passed with.                                          *)
(***************************************************************************)
C20_CallerRecordUnchanged ==
    \A c \in callers : Called(c) => data[c] = passed[c]

\* a call has returned after folding the flag A away and attaching the row
\* id in its working copy
C20_Witness ==
    \E c \in callers :
        /\ pc[c] = "returned"
        /\ Has(passed[c], "A")
        /\ ~Has(update_data[c], "A")
        /\ Has(update_data[c], "id")
        /\ ~Has(passed[c], "id")

(***************************************************************************)
(* C17: a call that returns has made one lookup that answered and one      *)
(* write that succeeded, every lookup before every write, and its writes   *)
(* are all creates or all updates; every other call it made is an attempt  *)
(* that ended in HTTPError and was retried, so without such failures it    *)
(* made exactly one lookup and one write.  At no point of a call is a      *)
(* lookup made after one that answered.                                    *)
(***************************************************************************)
C17_OneReadThenOneWrite ==
    \A c \in callers :
        /\ \A i \in CallsAt(c, {"get_rows"}), j \in CallsAt(c, {"get_rows"}) :
              i < j => log[c][i].res = "HTTPError"
        /\ \A i \in CallsAt(c, WriteOps), j \in CallsAt(c, WriteOps) :
              i < j => log[c][i].res = "HTTPError"
        /\ \A i \in CallsAt(c, {"get_rows"}), j \in CallsAt(c, WriteOps) : i < j
        /\ CallsAt(c, WriteOps) # {} => LookedUp(c)
        /\ CallsAt(c, {"add_rows"}) = {} \/ CallsAt(c, {"update_rows"}) = {}
        /\ pc[c] = "returned" =>
              /\ Results(c, {"get_rows"}, "ok") = 1
              /\ Results(c, WriteOps, "ok") = 1
              /\ LookupCalls(c) = 1 + Results(c, {"get_rows"}, "HTTPError")
              /\ WriteCalls(c) = 1 + Results(c, WriteOps, "HTTPError")

\* a call has returned after retrying both its lookup and its write
C17_Witness ==
    \E c \in callers :
        /\ pc[c] = "returned"
        /\ Results(c, {"get_rows"}, "HTTPError") > 0
        /\ Results(c, WriteOps, "HTTPError") > 0
        /\ LookupCalls(c) + WriteCalls(c) > 3

(***************************************************************************)
(* The folding of option flags, as the claims state it.                    *)
(***************************************************************************)
\* the labels of col that the record flags (maps to True or 1), in the
\* column's option order
Flagged(col, d) == SelectSeq(col.options, LAMBDA l : Has(d, l) /\ IsSelected(d[l]))

\* the record carries a value under the column's name
Explicit(col, d) == Has(d, col.name) /\ d[col.name] # NoneV

\* the call is at its write or has made it: update_data is the payload sent
Sent(c) == pc[c] \in {"upsert", "returned"}

(***************************************************************************)
(* C14, as claimed: when the record flags more than one option label of a  *)
(* single select column, no write is ever made, and once the lookup has    *)
(* answered the call raises "Multiple options for single select".          *)
(***************************************************************************)
C14_AmbiguousSingleSelectRaises ==
    \A c \in callers : \A i \in 1..Len(schema) :
        (Called(c) /\ schema[i].TYPE = "single_select"
                   /\ Len(Flagged(schema[i], data[c])) > 1) =>
            /\ ~Sent(c)
            /\ WriteCalls(c) = 0
            /\ (pc[c] = "raised" /\ LookedUp(c)) =>
                  error[c] = "Multiple options for single select"

(***************************************************************************)
(* C15, as claimed: when the record carries a value under the name of a    *)
(* select column (and flags at most one label of a single select), the     *)
(* payload sent has that value under the column's name.                    *)
(***************************************************************************)
C15_ExplicitValueWins ==
    \A c \in callers : \A i \in 1..Len(schema) :
        (Sent(c) /\ schema[i].TYPE \in {"single_select", "multiple_select"}
                 /\ Explicit(schema[i], data[c])
                 /\ \A j \in 1..Len(schema) :
                       schema[j].TYPE = "single_select" =>
                           Len(Flagged(schema[j], data[c])) <= 1) =>
            /\ Has(update_data[c], schema[i].name)
            /\ update_data[c][schema[i].name] = data[c][schema[i].name]

(***************************************************************************)
(* C16, as claimed: for a select column without a value in the record, the *)
(* payload sent has under the column's name the flagged label (single      *)
(* select) or the list of the flagged labels in option order (multiple     *)
(* select), or nothing when no label is flagged; and no option label of    *)
(* the column is a key of the payload.                                     *)
(***************************************************************************)
C16_FoldingResult ==
    \A c \in callers : \A i \in 1..Len(schema) :
        (Sent(c) /\ schema[i].TYPE \in {"single_select", "multiple_select"}
                 /\ ~Has(data[c], schema[i].name)) =>
            LET col == schema[i]
                flagged == Flagged(col, data[c])
            IN /\ Len(flagged) = 0 => ~Has(update_data[c], col.name)
               /\ Len(flagged) > 0 =>
                     /\ Has(update_data[c], col.name)
                     /\ update_data[c][col.name] =
                           IF col.TYPE = "single_select"
                           THEN StrV(flagged[1]) ELSE ListV(flagged)
               /\ \A j \in 1..Len(col.options) : ~Has(update_data[c], col.options[j])

(***************************************************************************)
(* C18: two calls for the same primary value that no remote row has.  Run  *)
(* one after the other (the second begins when the first has made its      *)
(* insert) they leave exactly one row with that value, and the second      *)
(* returns the id of the row the first created.  Two rows with the value   *)
(* exist only when both lookups answered with no match and both calls      *)
(* inserted; the witness shows that such a state is reached.               *)
(***************************************************************************)
\* the rows of the table named 1
RowsNamed1(table) ==
    {i \in 1..Len(table) :
        Has(table[i].fields, "Name") /\ table[i].fields["Name"] = IntV(1)}

C18_DuplicatesOnlyWhenRacing ==
    /\ \A c \in callers, d \in callers :
          (c # d /\ pc[c] = "returned" /\ pc[d] = "returned"
                 /\ Len(before[d]) > Len(before[c])) =>
              /\ Cardinality(RowsNamed1(rows)) = 1
              /\ row_id[d] = row_id[c]
    /\ \A d \in callers : pc[d] = "idle" => Cardinality(RowsNamed1(rows)) <= 1
    /\ Cardinality(RowsNamed1(rows)) > 1 =>
          \A c \in callers :
              /\ pc[c] = "returned"
              /\ RowsNamed1(before[c]) = {}
              /\ matching_rows[c] = <<>>
              /\ Results(c, {"add_rows"}, "ok") = 1

\* both calls have inserted: two remote rows carry the name 1
C18_Witness ==
    /\ Cardinality(RowsNamed1(rows)) = 2
    /\ \A c \in callers : pc[c] = "returned" /\ row_id[c] \in RowsNamed1(rows)
    /\ row_id[1] # row_id[2]

(***************************************************************************)
(* C19: every call of update_row that has begun comes to its end, returned *)
(* or raised, whatever the service answers; on the way the retry counter   *)
(* never passes retry_max_count, and neither the lookup nor the write is   *)
(* attempted more than retry_max_count + 1 times.                          *)
(***************************************************************************)
Done(c) == pc[c] \in {"returned", "raised"}

C19_Terminates ==
    /\ [](\A c \in callers :
            /\ retry_count[c] <= retry_max_count
            /\ LookupCalls(c) <= retry_max_count + 1
            /\ WriteCalls(c) <= retry_max_count + 1)
    /\ (\E c \in callers : Called(c) /\ ~Done(c)) ~> (\A c \in callers : Called(c) => Done(c))

\* the service has raised HTTPError on every call but the lookup's last:
\* the call has raised after retry_max_count + 1 failed writes
C19_Witness ==
    \E c \in callers :
        /\ pc[c] = "raised"
        /\ error[c] = "HTTPError"
        /\ retry_max_count > 0
        /\ Results(c, {"get_rows"}, "HTTPError") = retry_max_count
        /\ Results(c, WriteOps, "HTTPError") = retry_max_count + 1

====
